---- MODULE Spec2Model ----
(***************************************************************************)
(* Model of the DSP7265 Tango device server (pytango_DSP7265.py).          *)
(*                                                                         *)
(* The device server holds a link to the lock-in amplifier (self.device)   *)
(* and two code tables (self.GAINS, self.SLOPES).  Every attribute has a   *)
(* read_* handler that queries one register of the instrument and maps the *)
(* raw value to the attribute value, and (for the writable ones) a write_* *)
(* handler that maps the attribute value to a raw value and sets one       *)
(* register.                                                               *)
(*                                                                         *)
(* Encoding of the instrument's floating point values:                     *)
(*   time constants       pairs <<seconds, microseconds>>                  *)
(*   sensitivities        integers, nanovolts; NaN is the float not-a-     *)
(*                        number, unequal to everything, itself included   *)
(*   gain register        the instrument's AC gain code (dB / 10)          *)
(*   slope register       integers, dB/octave                              *)
(*   frequency            integers, millihertz                             *)
(*   coupling, ground     integers, halves (1.0 is Halves(1), 0.5 is 1)    *)
(*   x, y, mag            integers, volts;  phase: integer, degrees        *)
(***************************************************************************)
EXTENDS Integers, Sequences, FiniteSets, TLC

VARIABLES
    dev,        \* self.device: the registers of the instrument
    GAINS,      \* self.GAINS
    SLOPES,     \* self.SLOPES
    last,       \* outcome of the latest handler call (what the caller sees)
    calls,      \* the get/set calls the latest handler made on the link
    lastWrite,  \* history: per attribute, the argument of its latest successful write
    nops,       \* number of handler calls so far
    pc,         \* per concurrent caller: the link call it has in flight
    probe       \* argument and result of the index computation applied to a free table

vars == <<dev, GAINS, SLOPES, last, calls, lastWrite, nops, pc, probe>>

----------------------------------------------------------------------------
(* Bounds of the model *)

MaxOps == 2
ProbeLen == 3
ProbeMax == 2

----------------------------------------------------------------------------
(* Static tables *)

NaN == -1

\* entry i+1 is the raw value of enum label i of attribute timeconstant
TIME_CONSTANTS ==
    << <<0, 10>>, <<0, 20>>, <<0, 40>>, <<0, 80>>, <<0, 160>>, <<0, 320>>, <<0, 640>>,
       <<0, 5000>>, <<0, 10000>>, <<0, 20000>>, <<0, 50000>>, <<0, 100000>>,
       <<0, 200000>>, <<0, 500000>>,
       <<1, 0>>, <<2, 0>>, <<5, 0>>, <<10, 0>>, <<20, 0>>, <<50, 0>>, <<100, 0>>,
       <<200, 0>>, <<500, 0>>,
       <<1000, 0>>, <<2000, 0>>, <<5000, 0>>, <<10000, 0>>, <<20000, 0>>, <<50000, 0>> >>

\* entry i+1 is the raw value of enum label i of attribute sensitivity
SENSITIVITIES ==
    << NaN, 2, 5, 10, 20, 50, 100, 200, 500,
       1000, 2000, 5000, 10000, 20000, 50000, 100000, 200000, 500000,
       1000000, 2000000, 5000000, 10000000, 20000000, 50000000,
       100000000, 200000000, 500000000, 1000000000 >>

REFERENCES == <<"internal", "external rear", "external front">>

InitSLOPES == <<6, 12, 18, 24>>

InitGAINS == <<0, 10, 20, 30, 40, 50, 60, 70, 80, 90>>

min_value == 1

MilliHz(hz) == 1000 * hz

max_value == MilliHz(250000)

Halves(n) == 2 * n

Registers ==
    {"x", "y", "mag", "phase", "time_constant", "sensitivity", "gain", "slope",
     "frequency", "reference", "coupling", "ground"}

EnumAttrs == {"timeconstant", "sensitivity", "gain", "slope", "reference"}

WritableAttrs == EnumAttrs \cup {"frequency", "ACcoupling", "ground"}

\* the register each attribute's handlers access
RegOf(attr) ==
    CASE attr = "x" -> "x"
      [] attr = "y" -> "y"
      [] attr = "R" -> "mag"
      [] attr = "Theta" -> "phase"
      [] attr = "timeconstant" -> "time_constant"
      [] attr = "sensitivity" -> "sensitivity"
      [] attr = "gain" -> "gain"
      [] attr = "slope" -> "slope"
      [] attr = "frequency" -> "frequency"
      [] attr = "reference" -> "reference"
      [] attr = "ACcoupling" -> "coupling"
      [] attr = "ground" -> "ground"

----------------------------------------------------------------------------
(* The instrument link *)

\* device.<reg> = raw.  The gain property takes dB and keeps the gain code.
DeviceSet(d, reg, raw) ==
    [d EXCEPT ![reg] = IF reg = "gain" THEN raw \div 10 ELSE raw]

\* device.<reg>.  The gain property answers a list whose first element is the code.
DeviceGet(d, reg) ==
    IF reg = "gain" THEN <<d[reg]>> ELSE d[reg]

GetCall(reg) == [kind |-> "get", reg |-> reg, val |-> 0]

SetCall(reg, raw) == [kind |-> "set", reg |-> reg, val |-> raw]

----------------------------------------------------------------------------
(* Helpers of the handlers *)

\* numpy's elementwise == on floats
FloatEq(a, b) == a # NaN /\ b # NaN /\ a = b

\* (np.ones(n)*raw == table), for a table of integers or NaN
Mask(n, raw, table) == [i \in 1..n |-> FloatEq(raw, table[i])]

\* (np.ones(n)*raw == table), for the table of time constants
TimeMask(n, raw, table) == [i \in 1..n |-> raw = table[i]]

RECURSIVE SumUpTo(_, _)
SumUpTo(k, mask) ==
    IF k = 0 THEN 0
    ELSE SumUpTo(k - 1, mask) + (IF mask[k] THEN k - 1 ELSE 0)

\* the sum without the np.arange(n) weights: the number of matching entries
IndexSumUnweighted(n, mask) == Cardinality({i \in 1..n : mask[i]})

\* int(np.sum(np.arange(n)*mask))
IndexSum(n, mask) == SumUpTo(n, mask)

\* table[value] is defined (Python list indexing)
InRange(table, value) == -Len(table) <= value /\ value < Len(table)

\* table[value] (Python list indexing: a negative index counts from the end)
GetItem(table, value) ==
    IF value >= 0 THEN table[value + 1] ELSE table[Len(table) + value + 1]

\* the limits with the upper one taken as exclusive
within_limits_exclusive(value) == min_value <= value /\ value < max_value

\* min_value / max_value of attribute frequency
within_limits(value) == min_value <= value /\ value <= max_value

IntResult(v) == [kind |-> "int", val |-> v]

RealResult(v) == [kind |-> "real", val |-> v]

BoolResult(b) == [kind |-> "bool", val |-> b]

NoneResult == [kind |-> "none", val |-> 0]

----------------------------------------------------------------------------
(* Values of the read handlers in device state d *)

read_x_value(d) == RealResult(1000000000 * DeviceGet(d, "x"))

read_y_value(d) == RealResult(1000000000 * DeviceGet(d, "y"))

read_R_value(d) == RealResult(1000000000 * DeviceGet(d, "mag"))

read_Theta_value(d) == RealResult(DeviceGet(d, "phase"))

read_timeconstant_value(d) ==
    LET tc == DeviceGet(d, "time_constant")
    IN  IntResult(IndexSum(29, TimeMask(29, tc, TIME_CONSTANTS)))

read_sensitivity_value(d) ==
    LET sens == DeviceGet(d, "sensitivity")
    IN  IntResult(IndexSum(28, Mask(28, sens, SENSITIVITIES)))

\* read_gain without the factor of 10 between the gain code and the dB table
read_gain_value_unscaled(d, gains) ==
    LET g == DeviceGet(d, "gain")[1]
    IN  IntResult(IndexSum(10, Mask(10, g, gains)))

read_gain_value(d, gains) ==
    LET g == 10 * DeviceGet(d, "gain")[1]
    IN  IntResult(IndexSum(10, Mask(10, g, gains)))

read_slope_value(d, slopes) ==
    LET sl == DeviceGet(d, "slope")
    IN  IntResult(IndexSum(4, Mask(4, sl, slopes)))

read_frequency_value(d) == RealResult(DeviceGet(d, "frequency"))

read_reference_value(d) ==
    LET ref == DeviceGet(d, "reference")
    IN  IF ref = "internal" THEN IntResult(0)
        ELSE IF ref = "external rear" THEN IntResult(1)
        ELSE IF ref = "external front" THEN IntResult(2)
        ELSE NoneResult

\* read_ACcoupling with a truth test in place of the comparison with 1.0
read_ACcoupling_value_truthy(d) ==
    LET cou == DeviceGet(d, "coupling")
    IN  IF cou # 0 THEN BoolResult(TRUE) ELSE BoolResult(FALSE)

read_ACcoupling_value(d) ==
    LET cou == DeviceGet(d, "coupling")
    IN  IF cou = Halves(1) THEN BoolResult(TRUE) ELSE BoolResult(FALSE)

read_ground_value(d) ==
    LET cou == DeviceGet(d, "ground")
    IN  IF cou = Halves(1) THEN BoolResult(TRUE) ELSE BoolResult(FALSE)

----------------------------------------------------------------------------
(* Initial states *)

NoOp == [op |-> "none", attr |-> "none", arg |-> 0, status |-> "none",
         kind |-> "none", val |-> 0]

Idle == [kind |-> "idle", reg |-> "none", val |-> 0]

Callers == {"poller", "writer"}

\* every register at a nominal setting
Nominal ==
    [x |-> 1, y |-> 0, mag |-> 1, phase |-> 0,
     time_constant |-> <<0, 100000>>, sensitivity |-> 200000000, gain |-> 2,
     slope |-> 12, frequency |-> MilliHz(1000), reference |-> "internal",
     coupling |-> Halves(1), ground |-> Halves(0)]

\* readbacks one unit off a nominal setting
Noisy ==
    [x |-> 0, y |-> 2, mag |-> 2, phase |-> 90,
     time_constant |-> <<0, 100001>>, sensitivity |-> 200000001, gain |-> 3,
     slope |-> 13, frequency |-> MilliHz(1000) + 1, reference |-> "external rear",
     coupling |-> 1, ground |-> Halves(1)]

\* readbacks far from every setting
Unknown ==
    [x |-> 2, y |-> 1, mag |-> 0, phase |-> 180,
     time_constant |-> <<7, 0>>, sensitivity |-> NaN, gain |-> 11,
     slope |-> 3, frequency |-> 0, reference |-> "unknown",
     coupling |-> 3, ground |-> 1]

InitDevices == {Nominal, Noisy, Unknown}

IdleProbe == [table |-> <<>>, raw |-> 0, done |-> FALSE, result |-> 0]

Init ==
    /\ dev \in InitDevices
    /\ SLOPES = InitSLOPES
    /\ GAINS = InitGAINS
    /\ last = NoOp
    /\ calls = <<>>
    /\ lastWrite = [a \in WritableAttrs |-> <<>>]
    /\ nops = 0
    /\ pc = [p \in Callers |-> Idle]
    /\ probe = IdleProbe

----------------------------------------------------------------------------
(* Outcomes of a handler call *)

\* a read handler returns res after the link calls cs
Return(attr, res, cs) ==
    /\ last' = [op |-> "read", attr |-> attr, arg |-> 0, status |-> "ok",
                kind |-> res.kind, val |-> res.val]
    /\ calls' = cs
    /\ nops' = nops + 1
    /\ UNCHANGED <<dev, GAINS, SLOPES, lastWrite, pc, probe>>

\* a write handler sets register reg to raw and returns
Commit(attr, value, reg, raw) ==
    /\ dev' = DeviceSet(dev, reg, raw)
    /\ last' = [op |-> "write", attr |-> attr, arg |-> value, status |-> "ok",
                kind |-> "none", val |-> 0]
    /\ calls' = <<SetCall(reg, raw)>>
    /\ lastWrite' = [lastWrite EXCEPT ![attr] = <<value>>]
    /\ nops' = nops + 1
    /\ UNCHANGED <<GAINS, SLOPES, pc, probe>>

\* a write fails with error err before any link call
Raise(attr, value, err) ==
    /\ last' = [op |-> "write", attr |-> attr, arg |-> value, status |-> err,
                kind |-> "none", val |-> 0]
    /\ calls' = <<>>
    /\ nops' = nops + 1
    /\ UNCHANGED <<dev, GAINS, SLOPES, lastWrite, pc, probe>>

\* the indices a caller may pass for a table of n entries
IndexInputs(n) == {-(n + 1), -n, -1} \cup (0..n)

FrequencyInputs ==
    {-MilliHz(1), 0, min_value, MilliHz(1000), max_value, max_value + 1, MilliHz(300000)}

----------------------------------------------------------------------------
(* Read handlers *)

read_x ==
    /\ nops < MaxOps
    /\ Return("x", read_x_value(dev), <<GetCall("x")>>)

read_y ==
    /\ nops < MaxOps
    /\ Return("y", read_y_value(dev), <<GetCall("y")>>)

read_R ==
    /\ nops < MaxOps
    /\ Return("R", read_R_value(dev), <<GetCall("mag")>>)

read_Theta ==
    /\ nops < MaxOps
    /\ Return("Theta", read_Theta_value(dev), <<GetCall("phase")>>)

read_timeconstant ==
    /\ nops < MaxOps
    /\ Return("timeconstant", read_timeconstant_value(dev), <<GetCall("time_constant")>>)

read_sensitivity ==
    /\ nops < MaxOps
    /\ Return("sensitivity", read_sensitivity_value(dev), <<GetCall("sensitivity")>>)

read_gain ==
    /\ nops < MaxOps
    /\ Return("gain", read_gain_value(dev, GAINS), <<GetCall("gain")>>)

read_slope ==
    /\ nops < MaxOps
    /\ Return("slope", read_slope_value(dev, SLOPES), <<GetCall("slope")>>)

read_frequency ==
    /\ nops < MaxOps
    /\ Return("frequency", read_frequency_value(dev), <<GetCall("frequency")>>)

read_reference ==
    /\ nops < MaxOps
    /\ Return("reference", read_reference_value(dev), <<GetCall("reference")>>)

read_ACcoupling ==
    /\ nops < MaxOps
    /\ Return("ACcoupling", read_ACcoupling_value(dev), <<GetCall("coupling")>>)

read_ground ==
    /\ nops < MaxOps
    /\ Return("ground", read_ground_value(dev), <<GetCall("ground")>>)

----------------------------------------------------------------------------
(* Write handlers *)

write_timeconstant(value) ==
    /\ nops < MaxOps
    /\ IF InRange(TIME_CONSTANTS, value)
       THEN Commit("timeconstant", value, "time_constant", GetItem(TIME_CONSTANTS, value))
       ELSE Raise("timeconstant", value, "IndexError")

write_sensitivity(value) ==
    /\ nops < MaxOps
    /\ IF InRange(SENSITIVITIES, value)
       THEN Commit("sensitivity", value, "sensitivity", GetItem(SENSITIVITIES, value))
       ELSE Raise("sensitivity", value, "IndexError")

write_gain(value) ==
    /\ nops < MaxOps
    /\ IF InRange(GAINS, value)
       THEN Commit("gain", value, "gain", GetItem(GAINS, value))
       ELSE Raise("gain", value, "IndexError")

\* write_slope setting the gain property (a copy of write_gain with the table changed)
write_slope_sets_gain(value) ==
    /\ nops < MaxOps
    /\ IF InRange(SLOPES, value)
       THEN Commit("slope", value, "gain", GetItem(SLOPES, value))
       ELSE Raise("slope", value, "IndexError")

write_slope(value) ==
    /\ nops < MaxOps
    /\ IF InRange(SLOPES, value)
       THEN Commit("slope", value, "slope", GetItem(SLOPES, value))
       ELSE Raise("slope", value, "IndexError")

\* the attribute's min_value/max_value are applied to the value before the handler runs
write_frequency(value) ==
    /\ nops < MaxOps
    /\ IF within_limits(value)
       THEN Commit("frequency", value, "frequency", value)
       ELSE Raise("frequency", value, "OutOfBounds")

write_reference(value) ==
    /\ nops < MaxOps
    /\ IF InRange(REFERENCES, value)
       THEN Commit("reference", value, "reference", GetItem(REFERENCES, value))
       ELSE Raise("reference", value, "IndexError")

write_ACcoupling(value) ==
    /\ nops < MaxOps
    /\ IF value
       THEN Commit("ACcoupling", value, "coupling", Halves(1))
       ELSE Commit("ACcoupling", value, "coupling", Halves(0))

write_ground(value) ==
    /\ nops < MaxOps
    /\ IF value
       THEN Commit("ground", value, "ground", Halves(1))
       ELSE Commit("ground", value, "ground", Halves(0))

Next ==
    \/ read_x
    \/ read_y
    \/ read_R
    \/ read_Theta
    \/ read_timeconstant
    \/ read_sensitivity
    \/ read_gain
    \/ read_slope
    \/ read_frequency
    \/ read_reference
    \/ read_ACcoupling
    \/ read_ground
    \/ \E value \in IndexInputs(29) : write_timeconstant(value)
    \/ \E value \in IndexInputs(28) : write_sensitivity(value)
    \/ \E value \in IndexInputs(10) : write_gain(value)
    \/ \E value \in IndexInputs(4) : write_slope(value)
    \/ \E value \in FrequencyInputs : write_frequency(value)
    \/ \E value \in IndexInputs(3) : write_reference(value)
    \/ \E value \in BOOLEAN : write_ACcoupling(value)
    \/ \E value \in BOOLEAN : write_ground(value)

Spec == Init /\ [][Next]_vars

----------------------------------------------------------------------------
(* Concurrent callers: each handler's link call takes time on the bus.     *)
(* No handler takes a lock before its link call or releases one after it.  *)

\* the link calls the read handlers make
GetRequests == {GetCall(r) : r \in Registers}

\* the link calls the write handlers make for the values they accept
SetRequests ==
    {SetCall("time_constant", GetItem(TIME_CONSTANTS, i)) : i \in 0..28}
    \cup {SetCall("sensitivity", GetItem(SENSITIVITIES, i)) : i \in 0..27}
    \cup {SetCall("gain", GetItem(GAINS, i)) : i \in 0..9}
    \cup {SetCall("slope", GetItem(SLOPES, i)) : i \in 0..3}
    \cup {SetCall("reference", GetItem(REFERENCES, i)) : i \in 0..2}
    \cup {SetCall("frequency", v) : v \in {w \in FrequencyInputs : within_limits(w)}}
    \cup {SetCall("coupling", Halves(b)) : b \in 0..1}
    \cup {SetCall("ground", Halves(b)) : b \in 0..1}

\* caller p's handler issues its link call
LinkCall(p) ==
    /\ nops < MaxOps
    /\ pc[p].kind = "idle"
    /\ \E c \in GetRequests \cup SetRequests : pc' = [pc EXCEPT ![p] = c]
    /\ nops' = nops + 1
    /\ UNCHANGED <<dev, GAINS, SLOPES, last, calls, lastWrite, probe>>

\* the link call of caller p completes and its handler returns
LinkReturn(p) ==
    /\ pc[p].kind # "idle"
    /\ dev' = IF pc[p].kind = "set" THEN DeviceSet(dev, pc[p].reg, pc[p].val) ELSE dev
    /\ pc' = [pc EXCEPT ![p] = Idle]
    /\ UNCHANGED <<GAINS, SLOPES, last, calls, lastWrite, nops, probe>>

ConcNext ==
    \/ \E p \in Callers : LinkCall(p)
    \/ \E p \in Callers : LinkReturn(p)

SpecConc == Init /\ [][ConcNext]_vars

----------------------------------------------------------------------------
(* The index computation of the read handlers applied to a free table *)

ProbeTables == [1..ProbeLen -> 0..ProbeMax]

ResolveInit ==
    /\ dev = Nominal
    /\ SLOPES = InitSLOPES
    /\ GAINS = InitGAINS
    /\ last = NoOp
    /\ calls = <<>>
    /\ lastWrite = [a \in WritableAttrs |-> <<>>]
    /\ nops = 0
    /\ pc = [p \in Callers |-> Idle]
    /\ probe \in [table : ProbeTables, raw : 0..ProbeMax, done : {FALSE}, result : {0}]

Resolve ==
    /\ ~probe.done
    /\ probe' = [probe EXCEPT
                    !.done = TRUE,
                    !.result = IndexSum(Len(probe.table),
                                        Mask(Len(probe.table), probe.raw, probe.table))]
    /\ UNCHANGED <<dev, GAINS, SLOPES, last, calls, lastWrite, nops, pc>>

ResolveNext == Resolve

SpecResolve == ResolveInit /\ [][ResolveNext]_vars

----------------------------------------------------------------------------
(* Vocabulary of the properties *)

\* number of candidates of an enumerated attribute
CandCount(attr) ==
    CASE attr = "timeconstant" -> Len(TIME_CONSTANTS)
      [] attr = "sensitivity" -> Len(SENSITIVITIES)
      [] attr = "gain" -> Len(GAINS)
      [] attr = "slope" -> Len(SLOPES)
      [] attr = "reference" -> Len(REFERENCES)

\* the raw value of attribute attr in the device equals candidate i (1-based)
Matches(attr, i) ==
    CASE attr = "timeconstant" -> dev.time_constant = TIME_CONSTANTS[i]
      [] attr = "sensitivity" -> FloatEq(dev.sensitivity, SENSITIVITIES[i])
      [] attr = "gain" -> 10 * dev.gain = GAINS[i]
      [] attr = "slope" -> dev.slope = SLOPES[i]
      [] attr = "reference" -> dev.reference = REFERENCES[i]

Abs(n) == IF n < 0 THEN -n ELSE n

\* a and b differ, by no more than one unit
Close(a, b) == a # b /\ Abs(a - b) <= 1

\* the raw value of attribute attr is close to candidate i (1-based) without being it
Near(attr, i) ==
    CASE attr = "timeconstant" ->
            /\ dev.time_constant[1] = TIME_CONSTANTS[i][1]
            /\ Close(dev.time_constant[2], TIME_CONSTANTS[i][2])
      [] attr = "sensitivity" ->
            /\ dev.sensitivity # NaN
            /\ SENSITIVITIES[i] # NaN
            /\ Close(dev.sensitivity, SENSITIVITIES[i])
      [] attr = "gain" -> Close(10 * dev.gain, GAINS[i])
      [] attr = "slope" -> Close(dev.slope, SLOPES[i])

\* this step is a handler call
HandlerStep == nops' = nops + 1

----------------------------------------------------------------------------
(* Properties *)

\* C1: a read of an enumerated attribute whose raw value matches none of the
\* candidates fails with NoMatchingValue (it returns no index and no empty result).
C1_UnmatchedReadFails ==
    \A a \in EnumAttrs :
        (/\ last.op = "read"
         /\ last.attr = a
         /\ \A i \in 1..CandCount(a) : ~Matches(a, i))
        => last.status = "NoMatchingValue"

C4_OutOfRangeWriteFails ==
    [][(/\ HandlerStep
        /\ last'.op = "write"
        /\ last'.attr \in EnumAttrs
        /\ last'.arg \notin 0..(CandCount(last'.attr) - 1))
       => (last'.status = "IndexError" /\ dev' = dev)]_vars

C6_NearReadsAsIndex ==
    \A a \in {"timeconstant", "sensitivity", "gain", "slope"} :
        \A i \in 1..CandCount(a) :
            (last.op = "read" /\ last.attr = a /\ Near(a, i))
            => (last.status = "ok" /\ last.kind = "int" /\ last.val = i - 1)

C8_Booleans ==
    \A a \in {"ACcoupling", "ground"} :
        /\ (last.op = "read" /\ last.attr = a)
            => (last.kind = "bool" /\ last.val = (dev[RegOf(a)] = Halves(1)))
        /\ (last.op = "write" /\ last.attr = a)
            => (/\ last.status = "ok"
                /\ dev[RegOf(a)] = (IF last.arg THEN Halves(1) ELSE Halves(0)))
        /\ (last.op = "read" /\ last.attr = a /\ lastWrite[a] # <<>>)
            => last.val = lastWrite[a][1]

C8_Witness ==
    /\ last.op = "read"
    /\ last.attr = "ACcoupling"
    /\ dev.coupling = 1
    /\ last.val = FALSE

\* C9: no two link calls are ever in flight at once.
C9_LinkCallsSerialized ==
    Cardinality({p \in Callers : pc[p].kind # "idle"}) <= 1

\* C10: a write handler makes exactly one set, on its own register, and leaves the
\* other registers and the GAINS/SLOPES tables as they were; a read handler changes
\* no register or table; a register changes only by a successful write of its attribute.
C10_Frame ==
    [][HandlerStep =>
        /\ GAINS' = GAINS
        /\ SLOPES' = SLOPES
        /\ last'.op = "read" =>
            /\ dev' = dev
            /\ \A k \in 1..Len(calls') : calls'[k].kind = "get"
        /\ last'.op = "write" =>
            /\ \A r \in Registers \ {RegOf(last'.attr)} : dev'[r] = dev[r]
            /\ last'.status = "ok" =>
                /\ Len(calls') = 1
                /\ calls'[1].kind = "set"
                /\ calls'[1].reg = RegOf(last'.attr)
            /\ last'.status # "ok" => (calls' = <<>> /\ dev' = dev)
        /\ \A r \in Registers :
            dev'[r] # dev[r]
            => (last'.op = "write" /\ last'.status = "ok" /\ RegOf(last'.attr) = r)]_vars

C10_Witness ==
    /\ last.op = "write"
    /\ last.attr = "slope"
    /\ last.arg = 3
    /\ calls = <<SetCall("slope", 24)>>
    /\ dev = [Nominal EXCEPT !.slope = 24]

====
